---------------------------- MODULE Spec2Model ----------------------------
(***************************************************************************)
(* Model of parsers/rockcorpus_parser.py: the conversion of one Rock       *)
(* Corpus song (harmony .clt, melody .nlt, timing file) into one JAMS      *)
(* document, and the batch entry point process().                          *)
(*                                                                         *)
(* A text file is a sequence of lines; a line is the sequence of its       *)
(* tab-separated fields, each field a string.  Numeric text is turned into *)
(* a number by float, which is undefined (ValueError) on other text.       *)
(* An exception is the name of its class; "none" means no exception.       *)
(***************************************************************************)
EXTENDS Integers, Sequences, FiniteSets, TLC

VARIABLES
    timing_added,   \* create_JAMS argument: add-timings has been run on the files
    pc,             \* position of create_JAMS
    text,           \* read_harmony_lab: the lines of the harmony file (line 82)
    ret,            \* read_harmony_lab: outcome and returned sequences (line 107)
    tmp,            \* the temporary file of read_harmony_lab on disk
    melody,         \* parse_melody_nlt_file: the lines of the melody file
    timing,         \* parse_timing_file: the lines of the timing file
    jam,            \* the pyjams.JAMS document being built
    out,            \* the output file out_file
    raised,         \* exception that left create_JAMS, or "none"
    completed,      \* the readers that returned normally, in call order
    audio_sources,  \* process: the lines of audio_sources.txt
    in_dir,         \* process: per song of the input directory, the state of its files
    out_dir,        \* process: the songs whose document exists in the output directory
    song_map,       \* process: the lookup returned by get_audio_sources_info
    bpc,            \* position of process / get_audio_sources_info
    braised         \* exception that left process / get_audio_sources_info, or "none"

vars == <<timing_added, pc, text, ret, tmp, melody, timing, jam, out, raised,
          completed, audio_sources, in_dir, out_dir, song_map, bpc, braised>>

songVars == <<timing_added, pc, text, ret, tmp, melody, timing, jam, out, raised,
              completed>>

batchVars == <<audio_sources, in_dir, out_dir, song_map, bpc, braised>>

-----------------------------------------------------------------------------
(* Bounds of the explored inputs.                                          *)

MaxHarmonyRows == 3
MaxMelodyRows == 2
MaxTimingRows == 1
MaxIndexRows == 2

(* Numeric text used in the time columns, and all text float accepts.      *)
TimeTok == {"0", "1", "2"}

FloatOf == ("0" :> 0) @@ ("1" :> 1) @@ ("2" :> 2) @@ ("60" :> 60)

IsFloat(s) == s \in DOMAIN FloatOf

float(s) == FloatOf[s]

Files(rows, n) == UNION {[1..k -> rows] : k \in 0..n}

(* Harmony lines: seven-column lines (start, end, label, -, -, key, -),    *)
(* three-column trailing lines, and a truncated one-field line.            *)
HeadRows == {<<s, e, "I", "0", "0", "C", "0">> : s \in TimeTok, e \in TimeTok}

TailRows == {<<"2", e, "End">> : e \in TimeTok}

ShortRows == {<<"End">>}

HarmonyFiles == Files(HeadRows \cup TailRows \cup ShortRows, MaxHarmonyRows)

(* Melody lines: three columns (time, note, -) before add-timings, four    *)
(* columns (seconds, time, note, -) after it.                              *)
MelodyRows(ta) ==
    IF ta THEN {<<"0", t, "60", "0">> : t \in TimeTok} \cup ShortRows
          ELSE {<<t, "60", "0">> : t \in TimeTok} \cup ShortRows

MelodyFiles(ta) == Files(MelodyRows(ta), MaxMelodyRows)

(* Timing lines: two columns (time, measure).                              *)
TimingFiles == Files({<<"0", "1">>} \cup ShortRows, MaxTimingRows)


(* audio_sources.txt lines: three columns (song name, artist, album).      *)
Songs == {"a", "b"}

IndexRows == {<<n, ar, "p">> : n \in Songs, ar \in {"x", "y"}}

IndexFiles == Files(IndexRows, MaxIndexRows)

(* A song of the input directory has its complete harmony file, or one     *)
(* truncated to a single line.                                             *)
Batches == [Songs -> {"complete", "truncated"}]

-----------------------------------------------------------------------------
(* pyjams.util                                                             *)

\* read_lab keeps a field as text when float rejects it
Conv(value) == IF IsFloat(value) THEN float(value) ELSE value

\* one list per column; a line with another number of columns is an error
read_lab(lines, num_columns) ==
    IF \E i \in 1..Len(lines) : Len(lines[i]) # num_columns
    THEN [raised |-> "ValueError", data |-> [c \in 1..num_columns |-> <<>>]]
    ELSE [raised |-> "none",
          data |-> [c \in 1..num_columns |->
                        [i \in 1..Len(lines) |-> Conv(lines[i][c])]]]

Min(a, b) == IF a < b THEN a ELSE b

\* one range event per (start, end, label) of the zipped lists
fill_range_annotation_data(start_times, end_times, labels) ==
    [i \in 1..Min(Len(start_times), Min(Len(end_times), Len(labels))) |->
        [start |-> start_times[i], end |-> end_times[i], label |-> labels[i]]]

\* one point event per (time, label)
fill_event_annotation_data(times, labels) ==
    [i \in 1..Min(Len(times), Len(labels)) |->
        [time |-> times[i], label |-> labels[i]]]

-----------------------------------------------------------------------------
(* Python list helpers                                                     *)

\* s[1:]
Slice1(s) == IF Len(s) = 0 THEN <<>> ELSE Tail(s)

\* s[-1], for a non-empty s
Last(s) == s[Len(s)]

-----------------------------------------------------------------------------
(* read_harmony_lab                                                        *)

NoRet == [called |-> FALSE, raised |-> "none", start_times |-> <<>>,
          end_times |-> <<>>, chord_labels |-> <<>>, keys |-> <<>>,
          tmp |-> "absent"]

Returned(st, et, cl, ks) ==
    [called |-> TRUE, raised |-> "none", start_times |-> st, end_times |-> et,
     chord_labels |-> cl, keys |-> ks, tmp |-> "removed"]

Raised(exc, tmpfile) ==
    [called |-> TRUE, raised |-> exc, start_times |-> <<>>, end_times |-> <<>>,
     chord_labels |-> <<>>, keys |-> <<>>, tmp |-> tmpfile]

\* the lines written to the temporary file: all but the last
TempLines(lines) == SubSeq(lines, 1, Len(lines) - 1)

\* mutant: the seconds column is unpacked as start_times
enriched_start_times_seconds(data) == data[1]

\* the column unpacked as start_times when timing has been added
enriched_start_times(data) == data[2]

\* the columns unpacked as (start_times, end_times) when it has not
plain_times(data) == <<data[1], data[2]>>

read_harmony_lab(lines, ta) ==
    LET lab == read_lab(TempLines(lines), 7)
    IN  IF lab.raised # "none"
        THEN Raised(lab.raised, "closed")       \* os.remove is not reached
        ELSE IF ta
        THEN LET st == enriched_start_times(lab.data)
             IN  IF Len(lines) = 0
                 THEN Raised("IndexError", "removed")            \* text[-1]
                 ELSE IF Len(Last(lines)) < 2
                 THEN Raised("IndexError", "removed")            \* split(..)[1]
                 ELSE IF ~IsFloat(Last(lines)[2])
                 THEN Raised("ValueError", "removed")            \* float(..)
                 ELSE Returned(st, Append(Slice1(st), float(Last(lines)[2])),
                               lab.data[3], lab.data[6])
        ELSE Returned(plain_times(lab.data)[1], plain_times(lab.data)[2],
                      lab.data[3], lab.data[6])

-----------------------------------------------------------------------------
(* The readers of one song                                                 *)

NewJAMS == [duration |-> <<>>, chord |-> <<>>, note |-> <<>>, beat |-> <<>>]

\* mutant: end_times[0]
duration_of_first(end_times) == end_times[1]

\* jam.file_metadata.duration = end_times[-1]
duration_of(end_times) == Last(end_times)

parse_harmony_clt_file(jam_, r) ==
    IF r.raised # "none"
    THEN [raised |-> r.raised, jam |-> jam_]
    ELSE IF Len(r.end_times) = 0
    THEN [raised |-> "IndexError", jam |-> jam_]                 \* end_times[-1]
    ELSE [raised |-> "none",
          jam |-> [jam_ EXCEPT
                     !.duration = <<duration_of(r.end_times)>>,
                     !.chord = fill_range_annotation_data(
                                   r.start_times, r.end_times, r.chord_labels)]]

\* mutant: the last note ends where it starts
note_end_times_own(times, duration) ==
    IF Len(times) = 0 THEN <<duration>> ELSE Append(Slice1(times), Last(times))

\* the end times of the notes: the next start, and the duration for the last
note_end_times(times, duration) == Append(Slice1(times), duration)

parse_melody_nlt_file(jam_, lines, ta) ==
    LET lab == read_lab(lines, IF ta THEN 4 ELSE 3)
        times == IF ta THEN lab.data[2] ELSE lab.data[1]
        note_events == IF ta THEN lab.data[3] ELSE lab.data[2]
    IN  IF lab.raised # "none"
        THEN [raised |-> lab.raised, jam |-> jam_]
        ELSE [raised |-> "none",
              jam |-> [jam_ EXCEPT
                         !.note = fill_range_annotation_data(
                                      times,
                                      note_end_times(times, jam_.duration[1]),
                                      note_events)]]

\* the label of every beat event
BeatLabel == 1

parse_timing_file(jam_, lines) ==
    LET lab == read_lab(lines, 2)
        times == lab.data[1]
        labels == [i \in 1..Len(times) |-> BeatLabel]
    IN  IF lab.raised # "none"
        THEN [raised |-> lab.raised, jam |-> jam_]
        ELSE [raised |-> "none",
              jam |-> [jam_ EXCEPT
                         !.beat = fill_event_annotation_data(times, labels)]]

-----------------------------------------------------------------------------
(* create_JAMS                                                             *)

NoFile == [exists |-> FALSE, open |-> FALSE, doc |-> NewJAMS]

\* an exception of a reader leaves create_JAMS; otherwise the next statement
after(next, exc) == IF exc = "none" THEN next ELSE "failed"

\* mutant: the document is saved in a finally clause
save_reached_finally(p) == p \in {"save", "failed"}

\* the with-statement is reached once the three readers have returned
save_reached(p) == p = "save"

InitSong ==
    /\ timing_added \in BOOLEAN
    /\ pc = "parse_harmony"
    /\ text = <<>>
    /\ ret = NoRet
    /\ tmp = "absent"
    /\ melody = <<>>
    /\ timing = <<>>
    /\ jam = NewJAMS
    /\ out = NoFile
    /\ raised = "none"
    /\ completed = <<>>

IdleBatch ==
    /\ audio_sources = <<>>
    /\ in_dir = <<>>
    /\ out_dir = {}
    /\ song_map = <<>>
    /\ bpc = "idle"
    /\ braised = "none"

\* line 178
ParseHarmony ==
    /\ pc = "parse_harmony"
    /\ \E f \in HarmonyFiles :
         LET r == read_harmony_lab(f, timing_added)
             p == parse_harmony_clt_file(jam, r)
         IN  /\ text' = f
             /\ ret' = r
             /\ tmp' = r.tmp
             /\ jam' = p.jam
             /\ raised' = p.raised
             /\ pc' = after("parse_melody", p.raised)
             /\ completed' = IF p.raised = "none"
                             THEN Append(completed, "harmony") ELSE completed
    /\ UNCHANGED <<timing_added, melody, timing, out>>
    /\ UNCHANGED batchVars

\* line 179; the frame of parse_harmony_clt_file is gone
ParseMelody ==
    /\ pc = "parse_melody"
    /\ \E f \in MelodyFiles(timing_added) :
         LET p == parse_melody_nlt_file(jam, f, timing_added)
         IN  /\ melody' = f
             /\ jam' = p.jam
             /\ raised' = p.raised
             /\ pc' = after("parse_timing", p.raised)
             /\ completed' = IF p.raised = "none"
                             THEN Append(completed, "melody") ELSE completed
    /\ text' = <<>>
    /\ ret' = NoRet
    /\ UNCHANGED <<timing_added, tmp, timing, out>>
    /\ UNCHANGED batchVars

\* line 180; the frame of parse_melody_nlt_file is gone
ParseTiming ==
    /\ pc = "parse_timing"
    /\ \E f \in TimingFiles :
         LET p == parse_timing_file(jam, f)
         IN  /\ timing' = f
             /\ jam' = p.jam
             /\ raised' = p.raised
             /\ pc' = after("save", p.raised)
             /\ completed' = IF p.raised = "none"
                             THEN Append(completed, "timing") ELSE completed
    /\ melody' = <<>>
    /\ UNCHANGED <<timing_added, text, ret, tmp, out>>
    /\ UNCHANGED batchVars

\* lines 183-184: open, json.dump, and the close of the with-statement
SaveJAMS ==
    /\ save_reached(pc)
    /\ out' = [exists |-> TRUE, open |-> FALSE, doc |-> jam]
    /\ pc' = "returned"
    /\ timing' = <<>>
    /\ UNCHANGED <<timing_added, text, ret, tmp, melody, jam, raised, completed>>
    /\ UNCHANGED batchVars

Init == InitSong /\ IdleBatch

Next == ParseHarmony \/ ParseMelody \/ ParseTiming \/ SaveJAMS

Spec == Init /\ [][Next]_vars

-----------------------------------------------------------------------------
(* get_audio_sources_info and process                                      *)

\* the names bound in the module's namespace (lines 50-59, 62-63, the defs)
ModuleGlobals ==
    {"argparse", "json", "logging", "os", "sys", "tempfile", "time", "pyjams",
     "AUDIO_SOURCES_FILE", "ANNOTATORS", "fill_annotation_metadata",
     "read_harmony_lab", "get_audio_sources_info", "parse_harmony_clt_file",
     "parse_melody_nlt_file", "parse_timing_file", "create_JAMS", "process"}

\* the loop of lines 117-121: a later row replaces an earlier one of its name
songs_dict(data) ==
    LET N == Len(data[1])
        rows(name) == {n \in 1..N : data[1][n] = name}
        last(name) == CHOOSE n \in rows(name) : \A m \in rows(name) : m <= n
    IN  [name \in {data[1][n] : n \in 1..N} |->
            [artist |-> data[2][last(name)], album |-> data[3][last(name)]]]

\* line 114 reads the name util, which the module never binds
get_audio_sources_info(lines) ==
    IF "util" \notin ModuleGlobals
    THEN [raised |-> "NameError", songs |-> <<>>]
    ELSE LET lab == read_lab(lines, 3)
         IN  IF lab.raised # "none"
             THEN [raised |-> lab.raised, songs |-> <<>>]
             ELSE [raised |-> "none", songs |-> songs_dict(lab.data)]

IdleSong ==
    /\ timing_added = TRUE
    /\ pc = "idle"
    /\ text = <<>>
    /\ ret = NoRet
    /\ tmp = "absent"
    /\ melody = <<>>
    /\ timing = <<>>
    /\ jam = NewJAMS
    /\ out = NoFile
    /\ raised = "none"
    /\ completed = <<>>

BatchInputs ==
    /\ audio_sources \in IndexFiles
    /\ in_dir \in Batches
    /\ out_dir = {}
    /\ song_map = <<>>
    /\ bpc = "start"
    /\ braised = "none"

\* a call of get_audio_sources_info on the index file
GetAudioSourcesInfo ==
    /\ bpc = "start"
    /\ LET r == get_audio_sources_info(audio_sources)
       IN  /\ song_map' = r.songs
           /\ braised' = r.raised
           /\ bpc' = IF r.raised = "none" THEN "index_returned" ELSE "index_failed"
    /\ UNCHANGED <<audio_sources, in_dir, out_dir>>
    /\ UNCHANGED songVars

\* process(in_dir, out_dir), lines 186-189: it ends once song_map is bound
Process ==
    /\ bpc = "start"
    /\ LET r == get_audio_sources_info(audio_sources)
       IN  /\ song_map' = r.songs
           /\ braised' = r.raised
           /\ bpc' = IF r.raised = "none" THEN "process_returned"
                                          ELSE "process_failed"
    /\ UNCHANGED <<audio_sources, in_dir, out_dir>>
    /\ UNCHANGED songVars

NextBatch == GetAudioSourcesInfo \/ Process

InitBatch == IdleSong /\ BatchInputs

SpecBatch == InitBatch /\ [][NextBatch]_vars

-----------------------------------------------------------------------------
(* Properties of read_harmony_lab and parse_harmony_clt_file.  They are    *)
(* stated where ret.called holds: parse_harmony_clt_file has just          *)
(* returned or failed, and text and ret show what it read and got back.    *)

\* a harmony file of N >= 2 lines: N-1 seven-column lines, then a
\* three-column line
WellFormedHarmony(lines) ==
    /\ Len(lines) >= 2
    /\ \A i \in 1..(Len(lines) - 1) : Len(lines[i]) = 7
    /\ Len(Last(lines)) = 3

\* the end times are the start times shifted by one, closed by final_t
Shifted(st, et, final_t) ==
    /\ Len(et) = Len(st)
    /\ \A i \in 1..(Len(st) - 1) : et[i] = st[i + 1]
    /\ Last(et) = final_t

\* read_harmony_lab returned N-1 events whose start times are column col
EnrichedEvents(col) ==
    /\ ret.raised = "none"
    /\ Len(ret.start_times) = Len(text) - 1
    /\ Len(ret.chord_labels) = Len(text) - 1
    /\ \A i \in 1..(Len(text) - 1) : ret.start_times[i] = float(text[i][col])
    /\ Shifted(ret.start_times, ret.end_times, float(Last(text)[2]))

\* C1 as stated: with timing added, a well-formed harmony file of N lines
\* gives N-1 events whose start times are the FIRST column of lines 0..N-2,
\* end_time[i] = start_time[i+1], and the last end time is the second field
\* of the trailing line.
C1_StartsFromFirstColumn ==
    (ret.called /\ timing_added /\ WellFormedHarmony(text)) => EnrichedEvents(1)

\* C1 as amended: the same, with the start times taken from the SECOND
\* column (the measure column) of lines 0..N-2.
C1_StartsFromSecondColumn ==
    (ret.called /\ timing_added /\ WellFormedHarmony(text)) => EnrichedEvents(2)

C1_Witness ==
    /\ ret.called /\ timing_added /\ WellFormedHarmony(text)
    /\ Len(text) = 3
    /\ ret.raised = "none"
    /\ text[1][1] # text[1][2]
    /\ ret.end_times[1] = ret.start_times[2]
    /\ ret.end_times[2] # ret.start_times[2]

\* the (start, end, label) triples of the first N-1 lines
Triples(lines) ==
    [i \in 1..(Len(lines) - 1) |->
        [start |-> float(lines[i][1]), end |-> float(lines[i][2]),
         label |-> lines[i][3]]]

\* without timing added, the chord events are the triples of the first N-1
\* lines and the last end time and the duration are d
PlainEvents(d) ==
    /\ raised = "none"
    /\ jam.chord = Triples(text)
    /\ Last(ret.end_times) = d
    /\ jam.duration = <<d>>

C6_ShortFileRejected ==
    (ret.called /\ Len(text) < 2) => raised # "none"

\* C10: whenever read_harmony_lab returns normally, the four returned
\* sequences have the same length.
C10_SameLengths ==
    (ret.called /\ ret.raised = "none") =>
        /\ Len(ret.end_times) = Len(ret.start_times)
        /\ Len(ret.chord_labels) = Len(ret.start_times)
        /\ Len(ret.keys) = Len(ret.start_times)

-----------------------------------------------------------------------------
(* Properties of create_JAMS.                                              *)

\* C3: a melody file of M >= 1 lines gives M note events, each ending where
\* the next starts and the last ending at the duration, which is the last end
\* time the harmony reader returned for the song.
C3_NotesEndAtNextStart ==
    [][(pc = "parse_melody" /\ pc' = "parse_timing" /\ Len(melody') >= 1) =>
        LET d == Last(ret.end_times)
            M == Len(melody')
            col == IF timing_added THEN 2 ELSE 1
        IN  /\ jam'.duration = <<d>>
            /\ Len(jam'.note) = M
            /\ \A i \in 1..M : jam'.note[i].start = float(melody'[i][col])
            /\ \A i \in 1..(M - 1) : jam'.note[i].end = jam'.note[i + 1].start
            /\ jam'.note[M].end = d]_vars

C3_Witness ==
    /\ pc = "parse_timing"
    /\ Len(melody) = 2
    /\ Len(jam.note) = 2
    /\ jam.note[1].end = jam.note[2].start
    /\ jam.note[2].end = jam.duration[1]
    /\ jam.note[2].start # jam.duration[1]

\* C4: when a reader fails the output file is never created, and the output
\* file exists only after the three readers have returned, in their order.
C4_AllOrNothing ==
    /\ raised # "none" => (~out.exists /\ ~out.open)
    /\ (out.exists \/ out.open) => completed = <<"harmony", "melody", "timing">>

C4_Witness ==
    /\ pc = "failed"
    /\ completed = <<"harmony", "melody">>
    /\ raised = "ValueError"
    /\ ~out.exists

\* C7: once read_harmony_lab has returned or failed its temporary file is
\* closed and removed, and once create_JAMS has returned or failed no file
\* it opened is open.
C7_ResourcesReleased ==
    /\ pc # "parse_harmony" => tmp = "removed"
    /\ pc \in {"returned", "failed"} => ~out.open

\* start <= end in every event, and the start times do not decrease
RangeTrackOrdered(track) ==
    /\ \A i \in 1..Len(track) : track[i].start <= track[i].end
    /\ \A i \in 1..(Len(track) - 1) : track[i].start <= track[i + 1].start

\* C8: in every written document the chord and the note events have
\* start <= end and are in non-decreasing start order.
C8_TracksOrdered ==
    out.exists => (RangeTrackOrdered(out.doc.chord) /\ RangeTrackOrdered(out.doc.note))

-----------------------------------------------------------------------------
(* Properties of the batch.                                                *)

\* the lookup of an index file: every name maps to its last row
LastWriteWins(lines) ==
    [name \in {lines[n][1] : n \in 1..Len(lines)} |->
        LET n == CHOOSE k \in 1..Len(lines) :
                    /\ lines[k][1] = name
                    /\ \A m \in (k + 1)..Len(lines) : lines[m][1] # name
        IN  [artist |-> lines[n][2], album |-> lines[n][3]]]

\* C9: get_audio_sources_info returns the lookup in which every song name of
\* the index file maps to the artist and album of its last row.
C9_IndexLastWriteWins ==
    bpc \in {"index_returned", "index_failed"} =>
        (braised = "none" /\ song_map = LastWriteWins(audio_sources))

\* C5: when the batch has been processed, every song whose files are
\* complete has its document in the output directory, whatever happened to
\* the songs that failed.
C5_BatchContinues ==
    bpc \in {"process_returned", "process_failed"} =>
        \A s \in Songs : in_dir[s] = "complete" => s \in out_dir

=============================================================================
